---- MODULE Spec2Model ----
(***************************************************************************)
(* State-machine model of the two pages of the Specs-Nexus front end:      *)
(*   - OfficerManageEventsPage (src/unnamed/part_000)                      *)
(*   - ProfilePage (src/specs-nexus-front-main/src/pages/ProfilePage.js)   *)
(* Every async handler is split at its awaits: the step that issues a      *)
(* request appends a record to inflight, the step that delivers the        *)
(* response runs the continuation up to the next await.  A continuation    *)
(* reads the values its closure captured when the handler started.         *)
(***************************************************************************)
EXTENDS Integers, Sequences, FiniteSets, TLC

\* ---------------------------------------------------------------- bounds
MaxInFlight == 2

\* ---------------------------------------------------------------- values
NULL == "null"
TOKEN == "tok"
EventIds == {"e1", "e2"}

\* An event record as returned by the events endpoint (only what the page reads).
Event(id, arch) == [id |-> id, archived |-> arch]
NoEvent == [id |-> NULL, archived |-> FALSE]

\* Lists the events endpoint can answer with for a given archived flag.
EventLists(arch) == { <<>>, <<Event("e1", arch), Event("e2", arch)>> }

\* Lists the participants endpoint can answer with for an event.
ParticipantLists(id) == { <<>>, <<[event |-> id, name |-> "p1"]>> }

\* officerInfo as stored by the login page (JSON text) and as parsed.
OfficerInfos == {"json:admin", "json:member"}
NoOfficer == [position |-> NULL]
JSONparse(s) ==
  IF s = "json:admin" THEN [position |-> "Admin"] ELSE [position |-> "Member"]

\* Profiles the user endpoints can answer with.
Profile(n, y, b) ==
  [full_name |-> n, year |-> y, block |-> b, student_number |-> "s1", email |-> "m1"]
NoUser ==
  [full_name |-> NULL, year |-> NULL, block |-> NULL, student_number |-> NULL, email |-> NULL]
Profiles == { Profile("n1", "1st Year", "A"), Profile("n2", "2nd Year", "B") }
FormDatas == { [full_name |-> p.full_name, year |-> p.year, block |-> p.block] : p \in Profiles }

\* How a call of the service layer (officerEventService, userService) can end:
\* "auth" is an error whose message contains 'Invalid or expired token' or
\* 'HTTP error! status: 401'; "other" any other error ('Officer not found'
\* among them: it changes the dialog's message only, which is not modelled).
ServiceOutcomes == {"ok", "auth", "other"}
\* How a raw fetch() can end: ok response, status 401, another non-OK status,
\* or a rejected promise.
FetchOutcomes == {"ok", "auth", "http", "reject"}

\* ---------------------------------------------------------------- state
VARIABLES
  scope,              \* the controls this session uses: a group of the events page's, or the profile page's
  phase,              \* "constructed" (before the effects ran) or "mounted"
  ls,                 \* localStorage
  route,              \* "page", or "login" once navigate() to the login route ran
  inflight,           \* awaited requests, each with the closure of its handler
  last,               \* the step just taken: handler, outcome delivered, call issued
  \* OfficerManageEventsPage state (part_000:20-47)
  officer, events, showEventModal, showDetailsModal, selectedEvent,
  showParticipantsModal, participants, isLoading, showArchived, isTransitioning,
  statusModal, confirmationModal, approvalModal,
  \* ProfilePage state (ProfilePage.js:11-18)
  user, modalState,
  \* ProfileCard state (part_001:5-10)
  isEditing, formData

pageVars == <<officer, events, showEventModal, showDetailsModal, selectedEvent,
              showParticipantsModal, participants, isLoading, showArchived,
              isTransitioning, statusModal, confirmationModal, approvalModal>>
profVars == <<user, modalState, isEditing, formData>>
vars == <<scope, phase, ls, route, inflight, last, pageVars, profVars>>

\* The page a session is on.
Scopes == {"save", "archive", "approval", "participants", "profile"}
page == IF scope = "profile" THEN "profile" ELSE "events"

\* ---------------------------------------------------------------- helpers
\* A request: the service function or endpoint, the event id, archived flag and
\* token passed to it, and the body sent (profile updates only).
NoBody == [full_name |-> NULL, year |-> NULL, block |-> NULL]
NoCall == [fn |-> "none", id |-> NULL, archived |-> FALSE, token |-> NULL, body |-> NoBody]
Call(fn, id, arch, tok) ==
  [fn |-> fn, id |-> id, archived |-> arch, token |-> tok, body |-> NoBody]

\* A record of the step taken: op names the handler (and the await it resumed
\* after), outcome what the awaited call delivered, call the request the step
\* issued, data what a successful fetch delivered (a list, or <<profile>>);
\* nav is TRUE when the step removed the stored credentials and called navigate()
\* with the login route.
Step(op, outcome, call, data, nav) ==
  [op |-> op, outcome |-> outcome, call |-> call, data |-> data, nav |-> nav]

\* A step that only changes what is shown: no request issued, none settled.
UiStep == Step("ui", "none", NoCall, <<>>, FALSE)

\* An awaited request: h is the handler awaiting it, call the request.
Req(h, call) == [h |-> h, call |-> call]

RemoveAt(s, i) == [j \in 1..(Len(s) - 1) |-> IF j < i THEN s[j] ELSE s[j + 1]]
ReplaceAt(s, i, x) == [s EXCEPT ![i] = x]

\* localStorage.removeItem on both keys of a page.
ClearOfficer(store) == [store EXCEPT !.officerAccessToken = NULL, !.officerInfo = NULL]
ClearUser(store) == [store EXCEPT !.access_token = NULL, !.user_id = NULL]

\* error.message.includes('Invalid or expired token') || ...includes('HTTP error! status: 401')
IsAuthError(outcome) == outcome = "auth"

StatusClosed == [isOpen |-> FALSE, title |-> "", type |-> "success"]
Status(title, type) == [isOpen |-> TRUE, title |-> title, type |-> type]

NoClosure == [bound |-> FALSE, eventId |-> NULL, showArchived |-> FALSE, token |-> NULL]

\* const token = localStorage.getItem(...) of the current render.
token == ls.officerAccessToken
userToken == ls.access_token

\* ---------------------------------------------------------------- Init
Init ==
  /\ scope \in Scopes
  /\ phase = "constructed"
  /\ ls \in [officerAccessToken : {NULL, TOKEN}, officerInfo : {NULL} \cup OfficerInfos,
             access_token : {NULL, TOKEN}, user_id : {NULL, "7"}]
  /\ page = "events" => ls.access_token = NULL /\ ls.user_id = NULL
  /\ page = "profile" => ls.officerAccessToken = NULL /\ ls.officerInfo = NULL
  /\ route = "page"
  /\ inflight = <<>>
  /\ last = Step("init", "none", NoCall, <<>>, FALSE)
  /\ officer = NoOfficer
  /\ events = <<>>
  /\ showEventModal = FALSE
  /\ showDetailsModal = FALSE
  /\ selectedEvent = NoEvent
  /\ showParticipantsModal = FALSE
  /\ participants = <<>>
  /\ isLoading = TRUE
  /\ showArchived = FALSE
  /\ isTransitioning = FALSE
  /\ statusModal = StatusClosed
  /\ confirmationModal = [isOpen |-> FALSE, eventId |-> NULL, onConfirm |-> NoClosure,
                          isLoading |-> FALSE]
  /\ approvalModal = [isOpen |-> FALSE, eventId |-> NULL]
  /\ user = NoUser
  /\ modalState = StatusClosed
  /\ isEditing = FALSE
  /\ formData = NoBody

\* ================================================ OfficerManageEventsPage
\* The page renders its controls only past both early returns (part_000:409-416)
\* and only while the route is still the page's.
Visible == route = "page" /\ phase = "mounted" /\ ~isLoading /\ token # NULL /\ officer # NoOfficer

\* The event cards are rendered when the grid is (part_000:448-452).
Rendered == IF Visible /\ ~isTransitioning THEN {events[k] : k \in DOMAIN events} ELSE {}

CanIssue == Len(inflight) < MaxInFlight

\* Condition of the auth-check effect (part_000:53).
AuthCheckFails == token = NULL \/ ls.officerInfo = NULL

\* Guard of fetchData (part_000:64): the request it goes on to issue, if any.
fetchDataCall(t, arch) ==
  IF t = NULL THEN NoCall ELSE Call("getOfficerEvents", NULL, arch, t)

\* fetchData up to its await (part_000:63-72), run by the effect for token t and
\* flag arch, reading officerInfo from the store as it is then.
fetchData(t, arch, store) ==
  /\ officer' = IF t = NULL THEN officer
                ELSE IF store.officerInfo = NULL THEN NoOfficer
                ELSE JSONparse(store.officerInfo)
  /\ inflight' = IF fetchDataCall(t, arch) = NoCall THEN inflight
                 ELSE Append(inflight, Req("fetchData", fetchDataCall(t, arch)))

\* Mount: the auth-check effect, then the fetch effect (part_000:52-101).
MountEvents ==
  /\ page = "events" /\ phase = "constructed"
  /\ phase' = "mounted"
  /\ ls' = IF AuthCheckFails THEN ClearOfficer(ls) ELSE ls
  /\ route' = IF AuthCheckFails THEN "login" ELSE route
  /\ fetchData(token, showArchived, ls')
  /\ last' = Step("mount", "none", fetchDataCall(token, showArchived), <<>>, AuthCheckFails)
  /\ UNCHANGED <<scope, events, showEventModal, showDetailsModal, selectedEvent,
                 showParticipantsModal, participants, isLoading, showArchived,
                 isTransitioning, statusModal, confirmationModal, approvalModal, profVars>>

\* fetchData after its await: try / catch / finally (part_000:72-97).
fetchData_settled(i, outcome, data) ==
  /\ inflight[i].h = "fetchData"
  /\ inflight' = RemoveAt(inflight, i)
  /\ events' = IF outcome = "ok" THEN data ELSE events
  /\ ls' = IF outcome # "ok" /\ IsAuthError(outcome) THEN ClearOfficer(ls) ELSE ls
  /\ route' = IF outcome # "ok" /\ IsAuthError(outcome) THEN "login" ELSE route
  /\ statusModal' = IF outcome # "ok" /\ ~IsAuthError(outcome)
                    THEN Status("Error", "error") ELSE statusModal
  /\ isLoading' = FALSE
  /\ isTransitioning' = FALSE
  /\ last' = Step("fetchData", outcome, NoCall, data, outcome # "ok" /\ IsAuthError(outcome))
  /\ UNCHANGED <<scope, phase, officer, showEventModal, showDetailsModal, selectedEvent,
                 showParticipantsModal, participants, showArchived,
                 confirmationModal, approvalModal, profVars>>

FetchDataSettles ==
  \E i \in DOMAIN inflight : \E outcome \in ServiceOutcomes :
    \E data \in (IF outcome = "ok" THEN EventLists(inflight[i].call.archived) ELSE {<<>>}) :
      fetchData_settled(i, outcome, data)

\* toggleArchived (part_000:374-378) and the fetch effect its state change re-runs.
toggleArchived ==
  /\ Visible /\ CanIssue
  /\ isTransitioning' = TRUE
  /\ showArchived' = ~showArchived
  /\ fetchData(token, ~showArchived, ls)
  /\ last' = Step("toggleArchived", "none", fetchDataCall(token, ~showArchived), <<>>, FALSE)
  /\ UNCHANGED <<scope, phase, ls, route, events, showEventModal, showDetailsModal,
                 selectedEvent, showParticipantsModal, participants, isLoading,
                 statusModal, confirmationModal, approvalModal, profVars>>

\* ------------------------------------------------------------ create / update
handleAddNewEvent ==
  /\ Visible
  /\ selectedEvent' = NoEvent
  /\ showEventModal' = TRUE
  /\ last' = UiStep
  /\ UNCHANGED <<scope, phase, ls, route, inflight, officer, events, showDetailsModal,
                 showParticipantsModal, participants, isLoading, showArchived,
                 isTransitioning, statusModal, confirmationModal, approvalModal, profVars>>

handleEdit(evt) ==
  /\ evt \in Rendered /\ ~showArchived
  /\ selectedEvent' = evt
  /\ showEventModal' = TRUE
  /\ last' = UiStep
  /\ UNCHANGED <<scope, phase, ls, route, inflight, officer, events, showDetailsModal,
                 showParticipantsModal, participants, isLoading, showArchived,
                 isTransitioning, statusModal, confirmationModal, approvalModal, profVars>>

handleCloseEventModal ==
  /\ Visible /\ showEventModal
  /\ showEventModal' = FALSE
  /\ last' = UiStep
  /\ UNCHANGED <<scope, phase, ls, route, inflight, officer, events, showDetailsModal,
                 selectedEvent, showParticipantsModal, participants, isLoading,
                 showArchived, isTransitioning, statusModal, confirmationModal,
                 approvalModal, profVars>>

\* The request handleSave awaits first (part_000:330-341).
handleSaveCall(eventId) ==
  IF eventId # NULL THEN Call("updateOfficerEvent", eventId, showArchived, token)
  ELSE Call("createOfficerEvent", NULL, showArchived, token)

\* handleSave up to its first await (part_000:328-341), called by the event
\* modal's onSave while that modal is shown.
handleSave(eventId) ==
  /\ Visible /\ showEventModal /\ CanIssue
  /\ inflight' = Append(inflight, Req("handleSave", handleSaveCall(eventId)))
  /\ last' = Step("handleSave", "none", handleSaveCall(eventId), <<>>, FALSE)
  /\ UNCHANGED <<scope, phase, ls, route, pageVars, profVars>>

\* The catch block of handleSave (part_000:352-371).
handleSave_catch(i, op, outcome) ==
  /\ inflight' = RemoveAt(inflight, i)
  /\ ls' = IF IsAuthError(outcome) THEN ClearOfficer(ls) ELSE ls
  /\ route' = IF IsAuthError(outcome) THEN "login" ELSE route
  /\ statusModal' = IF IsAuthError(outcome) THEN statusModal
                    ELSE Status("Error Saving Event", "error")
  /\ last' = Step(op, outcome, NoCall, <<>>, IsAuthError(outcome))
  /\ UNCHANGED <<showEventModal, events>>

\* The refresh handleSave issues after a successful mutation (part_000:350).
handleSaveRefresh(r) == Call("getOfficerEvents", NULL, r.call.archived, r.call.token)

\* A faulty handleSave: reports success but does not refresh the list.
handleSave_mutated_noRefresh(i, outcome) ==
  /\ inflight[i].h = "handleSave"
  /\ inflight[i].call.fn \in {"updateOfficerEvent", "createOfficerEvent"}
  /\ IF outcome = "ok"
     THEN /\ statusModal' = Status(IF inflight[i].call.fn = "updateOfficerEvent"
                                   THEN "Event Updated" ELSE "Event Created", "success")
          /\ showEventModal' = FALSE
          /\ inflight' = RemoveAt(inflight, i)
          /\ last' = Step("handleSave.mutation", outcome, NoCall, <<>>, FALSE)
          /\ UNCHANGED <<ls, route, events>>
     ELSE handleSave_catch(i, "handleSave.mutation", outcome)
  /\ UNCHANGED <<scope, phase, officer, showDetailsModal, selectedEvent,
                 showParticipantsModal, participants, isLoading, showArchived,
                 isTransitioning, confirmationModal, approvalModal, profVars>>

\* handleSave after the create/update await (part_000:332-350).
handleSave_mutated(i, outcome) ==
  /\ inflight[i].h = "handleSave"
  /\ inflight[i].call.fn \in {"updateOfficerEvent", "createOfficerEvent"}
  /\ IF outcome = "ok"
     THEN /\ statusModal' = Status(IF inflight[i].call.fn = "updateOfficerEvent"
                                   THEN "Event Updated" ELSE "Event Created", "success")
          /\ showEventModal' = FALSE
          /\ inflight' = ReplaceAt(inflight, i, Req("handleSave", handleSaveRefresh(inflight[i])))
          /\ last' = Step("handleSave.mutation", outcome, handleSaveRefresh(inflight[i]), <<>>, FALSE)
          /\ UNCHANGED <<ls, route, events>>
     ELSE handleSave_catch(i, "handleSave.mutation", outcome)
  /\ UNCHANGED <<scope, phase, officer, showDetailsModal, selectedEvent,
                 showParticipantsModal, participants, isLoading, showArchived,
                 isTransitioning, confirmationModal, approvalModal, profVars>>

\* handleSave after the refresh await (part_000:350-351).
handleSave_refreshed(i, outcome, data) ==
  /\ inflight[i].h = "handleSave"
  /\ inflight[i].call.fn = "getOfficerEvents"
  /\ IF outcome = "ok"
     THEN /\ events' = data
          /\ inflight' = RemoveAt(inflight, i)
          /\ last' = Step("handleSave.refresh", outcome, NoCall, data, FALSE)
          /\ UNCHANGED <<ls, route, statusModal, showEventModal>>
     ELSE handleSave_catch(i, "handleSave.refresh", outcome)
  /\ UNCHANGED <<scope, phase, officer, showDetailsModal, selectedEvent,
                 showParticipantsModal, participants, isLoading, showArchived,
                 isTransitioning, confirmationModal, approvalModal, profVars>>

\* ------------------------------------------------------------ archive
\* A faulty handleArchive: archives at once, without waiting for the dialog.
handleArchive_deletesAtOnce(eventId) ==
  /\ CanIssue
  /\ confirmationModal' =
       [isOpen |-> TRUE, eventId |-> eventId,
        onConfirm |-> [bound |-> TRUE, eventId |-> confirmationModal.eventId,
                       showArchived |-> showArchived, token |-> token],
        isLoading |-> FALSE]
  /\ inflight' = Append(inflight,
                        Req("confirmArchive", Call("deleteOfficerEvent", eventId, showArchived, token)))
  /\ last' = Step("handleArchive", "none",
                  Call("deleteOfficerEvent", eventId, showArchived, token), <<>>, FALSE)
  /\ UNCHANGED <<scope, phase, ls, route, officer, events, showEventModal,
                 showDetailsModal, selectedEvent, showParticipantsModal, participants,
                 isLoading, showArchived, isTransitioning, statusModal, approvalModal,
                 profVars>>

\* handleArchive (part_000:189-200).  onConfirm is the confirmArchive of the
\* render the click happened in: it closes over that render's confirmationModal,
\* showArchived and token.
handleArchive(eventId) ==
  /\ confirmationModal' =
       [isOpen |-> TRUE, eventId |-> eventId,
        onConfirm |-> [bound |-> TRUE, eventId |-> confirmationModal.eventId,
                       showArchived |-> showArchived, token |-> token],
        isLoading |-> FALSE]
  /\ last' = Step("handleArchive", "none", NoCall, <<>>, FALSE)
  /\ UNCHANGED <<scope, phase, ls, route, inflight, officer, events, showEventModal,
                 showDetailsModal, selectedEvent, showParticipantsModal, participants,
                 isLoading, showArchived, isTransitioning, statusModal, approvalModal,
                 profVars>>

\* The Archive button of an event card (part_000:526).
ClickArchive ==
  \E evt \in Rendered : ~showArchived /\ handleArchive(evt.id)

\* handleCloseConfirmationModal without its isLoading test: the close always closes.
handleCloseConfirmationModal_closesWhileLoading ==
  /\ confirmationModal' = [confirmationModal EXCEPT !.isOpen = FALSE]
  /\ last' = Step("handleCloseConfirmationModal", "none", NoCall, <<>>, FALSE)
  /\ UNCHANGED <<scope, phase, ls, route, inflight, officer, events, showEventModal,
                 showDetailsModal, selectedEvent, showParticipantsModal, participants,
                 isLoading, showArchived, isTransitioning, statusModal, approvalModal,
                 profVars>>

\* handleCloseConfirmationModal (part_000:322-326).
handleCloseConfirmationModal ==
  /\ confirmationModal' = IF ~confirmationModal.isLoading
                          THEN [confirmationModal EXCEPT !.isOpen = FALSE]
                          ELSE confirmationModal
  /\ last' = Step("handleCloseConfirmationModal", "none", NoCall, <<>>, FALSE)
  /\ UNCHANGED <<scope, phase, ls, route, inflight, officer, events, showEventModal,
                 showDetailsModal, selectedEvent, showParticipantsModal, participants,
                 isLoading, showArchived, isTransitioning, statusModal, approvalModal,
                 profVars>>

\* The dialog's Cancel / close control, there while the dialog is open (part_000:579-580).
CancelArchive ==
  /\ Visible /\ confirmationModal.isOpen
  /\ handleCloseConfirmationModal

\* confirmArchive up to its first await (part_000:202-209); c is the closure.
confirmArchive(c) ==
  /\ confirmationModal' = [confirmationModal EXCEPT !.isLoading = TRUE]
  /\ inflight' = Append(inflight,
                        Req("confirmArchive", Call("deleteOfficerEvent", c.eventId, c.showArchived, c.token)))
  /\ last' = Step("confirmArchive", "none",
                  Call("deleteOfficerEvent", c.eventId, c.showArchived, c.token), <<>>, FALSE)
  /\ UNCHANGED <<scope, phase, ls, route, officer, events, showEventModal,
                 showDetailsModal, selectedEvent, showParticipantsModal, participants,
                 isLoading, showArchived, isTransitioning, statusModal, approvalModal,
                 profVars>>

\* The dialog's confirm button: calls the onConfirm prop (part_000:578-589).  The
\* dialog is there while its isOpen prop is true.
ConfirmArchive ==
  /\ Visible /\ CanIssue
  /\ confirmationModal.isOpen
  /\ confirmationModal.onConfirm.bound
  /\ confirmArchive(confirmationModal.onConfirm)

\* The catch block of confirmArchive (part_000:221-237).
confirmArchive_catch(i, op, outcome) ==
  /\ inflight' = RemoveAt(inflight, i)
  /\ ls' = IF IsAuthError(outcome) THEN ClearOfficer(ls) ELSE ls
  /\ route' = IF IsAuthError(outcome) THEN "login" ELSE route
  /\ confirmationModal' = IF IsAuthError(outcome) THEN confirmationModal
                          ELSE [confirmationModal EXCEPT !.isOpen = FALSE, !.isLoading = FALSE]
  /\ statusModal' = IF IsAuthError(outcome) THEN statusModal
                    ELSE Status("Error Archiving Event", "error")
  /\ last' = Step(op, outcome, NoCall, <<>>, IsAuthError(outcome))
  /\ UNCHANGED events

\* The refresh confirmArchive issues after a successful delete (part_000:210).
confirmArchiveRefresh(r) == Call("getOfficerEvents", NULL, r.call.archived, r.call.token)

\* confirmArchive after the delete await (part_000:209-210).
confirmArchive_deleted(i, outcome) ==
  /\ inflight[i].h = "confirmArchive"
  /\ inflight[i].call.fn = "deleteOfficerEvent"
  /\ IF outcome = "ok"
     THEN /\ inflight' = ReplaceAt(inflight, i, Req("confirmArchive", confirmArchiveRefresh(inflight[i])))
          /\ last' = Step("confirmArchive.delete", outcome, confirmArchiveRefresh(inflight[i]), <<>>, FALSE)
          /\ UNCHANGED <<ls, route, events, statusModal, confirmationModal>>
     ELSE confirmArchive_catch(i, "confirmArchive.delete", outcome)
  /\ UNCHANGED <<scope, phase, officer, showEventModal, showDetailsModal, selectedEvent,
                 showParticipantsModal, participants, isLoading, showArchived,
                 isTransitioning, approvalModal, profVars>>

\* confirmArchive after the refresh await (part_000:210-220).
confirmArchive_refreshed(i, outcome, data) ==
  /\ inflight[i].h = "confirmArchive"
  /\ inflight[i].call.fn = "getOfficerEvents"
  /\ IF outcome = "ok"
     THEN /\ events' = data
          /\ confirmationModal' = [confirmationModal EXCEPT !.isOpen = FALSE, !.isLoading = FALSE]
          /\ statusModal' = Status("Event Archived", "success")
          /\ inflight' = RemoveAt(inflight, i)
          /\ last' = Step("confirmArchive.refresh", outcome, NoCall, data, FALSE)
          /\ UNCHANGED <<ls, route>>
     ELSE confirmArchive_catch(i, "confirmArchive.refresh", outcome)
  /\ UNCHANGED <<scope, phase, officer, showEventModal, showDetailsModal, selectedEvent,
                 showParticipantsModal, participants, isLoading, showArchived,
                 isTransitioning, approvalModal, profVars>>

\* ------------------------------------------------------------ approve / decline
ApprovalClosed == [isOpen |-> FALSE, eventId |-> NULL]
ApprovalActions == {"approve", "decline"}

\* officer?.position?.toLowerCase() === 'admin' (part_000:517).
IsAdmin == officer.position = "Admin"

\* handleApproveEvent (part_000:117-123), from the card's approve button (part_000:517-524).
handleApproveEvent(eventId) ==
  /\ approvalModal' = [isOpen |-> TRUE, eventId |-> eventId]
  /\ last' = UiStep
  /\ UNCHANGED <<scope, phase, ls, route, inflight, officer, events, showEventModal,
                 showDetailsModal, selectedEvent, showParticipantsModal, participants,
                 isLoading, showArchived, isTransitioning, statusModal,
                 confirmationModal, profVars>>

ClickApprove ==
  \E evt \in Rendered : ~showArchived /\ IsAdmin /\ handleApproveEvent(evt.id)

\* The approval modal's onClose (part_000:575).
CloseApprovalModal ==
  /\ Visible /\ approvalModal.isOpen
  /\ approvalModal' = ApprovalClosed
  /\ last' = UiStep
  /\ UNCHANGED <<scope, phase, ls, route, inflight, officer, events, showEventModal,
                 showDetailsModal, selectedEvent, showParticipantsModal, participants,
                 isLoading, showArchived, isTransitioning, statusModal,
                 confirmationModal, profVars>>

\* A faulty handleApprovalSubmit: a decline is sent to the backend too.
handleApprovalSubmitCall_declinePosts(action) ==
  IF approvalModal.eventId = NULL THEN NoCall
  ELSE Call("POST /events/id/approve", approvalModal.eventId, showArchived, token)

\* The request handleApprovalSubmit issues for an action (part_000:127-152).
handleApprovalSubmitCall(action) ==
  IF approvalModal.eventId = NULL \/ action = "decline" THEN NoCall
  ELSE Call("POST /events/id/approve", approvalModal.eventId, showArchived, token)

\* handleApprovalSubmit up to its first await (part_000:126-152), called by the
\* approval modal's onSubmit while that modal is shown.
handleApprovalSubmit(action) ==
  /\ Visible /\ approvalModal.isOpen
  /\ handleApprovalSubmitCall(action) # NoCall => CanIssue
  /\ approvalModal' = IF handleApprovalSubmitCall(action) = NoCall
                      THEN ApprovalClosed ELSE approvalModal
  /\ statusModal' = IF approvalModal.eventId # NULL /\ action = "decline"
                    THEN Status("Event Declined", "error") ELSE statusModal
  /\ inflight' = IF handleApprovalSubmitCall(action) = NoCall THEN inflight
                 ELSE Append(inflight, Req("handleApprovalSubmit", handleApprovalSubmitCall(action)))
  /\ last' = Step("handleApprovalSubmit:" \o action, "none", handleApprovalSubmitCall(action), <<>>, FALSE)
  /\ UNCHANGED <<scope, phase, ls, route, officer, events, showEventModal,
                 showDetailsModal, selectedEvent, showParticipantsModal, participants,
                 isLoading, showArchived, isTransitioning, confirmationModal, profVars>>

\* The catch block of handleApprovalSubmit (part_000:177-186).
handleApprovalSubmit_catch(i, op, outcome) ==
  /\ inflight' = RemoveAt(inflight, i)
  /\ approvalModal' = ApprovalClosed
  /\ statusModal' = Status("Error", "error")
  /\ last' = Step(op, outcome, NoCall, <<>>, FALSE)
  /\ UNCHANGED <<ls, route, events>>

\* The refresh handleApprovalSubmit issues after a successful approve (part_000:175).
handleApprovalRefresh(r) == Call("getOfficerEvents", NULL, r.call.archived, r.call.token)

\* handleApprovalSubmit after the approve await (part_000:147-175).
handleApprovalSubmit_approved(i, outcome) ==
  /\ inflight[i].h = "handleApprovalSubmit"
  /\ inflight[i].call.fn = "POST /events/id/approve"
  /\ CASE outcome = "ok" ->
            /\ approvalModal' = ApprovalClosed
            /\ statusModal' = Status("Event Approved", "success")
            /\ inflight' = ReplaceAt(inflight, i, Req("handleApprovalSubmit", handleApprovalRefresh(inflight[i])))
            /\ last' = Step("handleApprovalSubmit.approve", outcome, handleApprovalRefresh(inflight[i]), <<>>, FALSE)
            /\ UNCHANGED <<ls, route, events>>
       [] outcome = "auth" ->
            /\ ls' = ClearOfficer(ls)
            /\ route' = "login"
            /\ inflight' = RemoveAt(inflight, i)
            /\ last' = Step("handleApprovalSubmit.approve", outcome, NoCall, <<>>, TRUE)
            /\ UNCHANGED <<approvalModal, statusModal, events>>
       [] OTHER -> handleApprovalSubmit_catch(i, "handleApprovalSubmit.approve", outcome)
  /\ UNCHANGED <<scope, phase, officer, showEventModal, showDetailsModal, selectedEvent,
                 showParticipantsModal, participants, isLoading, showArchived,
                 isTransitioning, confirmationModal, profVars>>

\* handleApprovalSubmit after the refresh await (part_000:175-186).
handleApprovalSubmit_refreshed(i, outcome, data) ==
  /\ inflight[i].h = "handleApprovalSubmit"
  /\ inflight[i].call.fn = "getOfficerEvents"
  /\ IF outcome = "ok"
     THEN /\ events' = data
          /\ inflight' = RemoveAt(inflight, i)
          /\ last' = Step("handleApprovalSubmit.refresh", outcome, NoCall, data, FALSE)
          /\ UNCHANGED <<ls, route, statusModal, approvalModal>>
     ELSE handleApprovalSubmit_catch(i, "handleApprovalSubmit.refresh", outcome)
  /\ UNCHANGED <<scope, phase, officer, showEventModal, showDetailsModal, selectedEvent,
                 showParticipantsModal, participants, isLoading, showArchived,
                 isTransitioning, confirmationModal, profVars>>

\* ------------------------------------------------------------ details / participants
handleDetails(evt) ==
  /\ evt \in Rendered /\ showArchived
  /\ selectedEvent' = evt
  /\ showDetailsModal' = TRUE
  /\ last' = UiStep
  /\ UNCHANGED <<scope, phase, ls, route, inflight, officer, events, showEventModal,
                 showParticipantsModal, participants, isLoading, showArchived,
                 isTransitioning, statusModal, confirmationModal, approvalModal, profVars>>

\* The details modal is rendered while selectedEvent is set and shown while
\* showDetailsModal (part_000:552-559); its onClose is handleCloseDetailsModal
\* (part_000:306-310).
handleCloseDetailsModal ==
  /\ Visible /\ selectedEvent # NoEvent /\ showDetailsModal
  /\ showDetailsModal' = FALSE
  /\ selectedEvent' = NoEvent
  /\ last' = UiStep
  /\ UNCHANGED <<scope, phase, ls, route, inflight, officer, events, showEventModal,
                 showParticipantsModal, participants, isLoading, showArchived,
                 isTransitioning, statusModal, confirmationModal, approvalModal, profVars>>

\* handleCloseParticipantsModal (part_000:312-316).
handleCloseParticipantsModal ==
  /\ Visible /\ showParticipantsModal
  /\ showParticipantsModal' = FALSE
  /\ participants' = <<>>
  /\ last' = UiStep
  /\ UNCHANGED <<scope, phase, ls, route, inflight, officer, events, showEventModal,
                 showDetailsModal, selectedEvent, isLoading, showArchived,
                 isTransitioning, statusModal, confirmationModal, approvalModal, profVars>>

\* handleCloseStatusModal (part_000:318-320).
handleCloseStatusModal ==
  /\ Visible /\ statusModal.isOpen
  /\ statusModal' = [statusModal EXCEPT !.isOpen = FALSE]
  /\ last' = UiStep
  /\ UNCHANGED <<scope, phase, ls, route, inflight, officer, events, showEventModal,
                 showDetailsModal, selectedEvent, showParticipantsModal, participants,
                 isLoading, showArchived, isTransitioning, confirmationModal,
                 approvalModal, profVars>>

\* handleParticipants up to its await (part_000:247-269), from a card's
\* participants button (part_000:477-485, 506-509).
handleParticipants(evt) ==
  /\ evt \in Rendered /\ CanIssue
  /\ IF evt.id = NULL
     THEN /\ statusModal' = Status("Error", "error")
          /\ last' = Step("handleParticipants", "none", NoCall, <<>>, FALSE)
          /\ UNCHANGED <<showDetailsModal, selectedEvent, inflight>>
     ELSE /\ showDetailsModal' = FALSE
          /\ selectedEvent' = evt
          /\ inflight' = Append(inflight, Req("handleParticipants",
                                  Call("GET /events/id/participants", evt.id, showArchived, token)))
          /\ last' = Step("handleParticipants", "none",
                          Call("GET /events/id/participants", evt.id, showArchived, token), <<>>, FALSE)
          /\ UNCHANGED statusModal
  /\ UNCHANGED <<scope, phase, ls, route, officer, events, showEventModal,
                 showParticipantsModal, participants, isLoading, showArchived,
                 isTransitioning, confirmationModal, approvalModal, profVars>>

\* A faulty handleParticipants: its catch block reports the error but leaves the
\* participants modal as it was.
handleParticipants_settled_modalClosed(i, outcome, data) ==
  /\ inflight[i].h = "handleParticipants"
  /\ inflight' = RemoveAt(inflight, i)
  /\ CASE outcome = "ok" ->
            /\ participants' = data
            /\ showParticipantsModal' = TRUE
            /\ UNCHANGED <<ls, route, statusModal>>
       [] outcome = "auth" ->
            /\ ls' = ClearOfficer(ls)
            /\ route' = "login"
            /\ UNCHANGED <<participants, showParticipantsModal, statusModal>>
       [] OTHER ->
            /\ participants' = <<>>
            /\ statusModal' = Status("Error", "error")
            /\ UNCHANGED <<ls, route, showParticipantsModal>>
  /\ last' = Step("handleParticipants.fetch", outcome, NoCall, data, outcome = "auth")
  /\ UNCHANGED <<scope, phase, officer, events, showEventModal, showDetailsModal,
                 selectedEvent, isLoading, showArchived, isTransitioning,
                 confirmationModal, approvalModal, profVars>>

\* handleParticipants after its await (part_000:270-298).
handleParticipants_settled(i, outcome, data) ==
  /\ inflight[i].h = "handleParticipants"
  /\ inflight' = RemoveAt(inflight, i)
  /\ CASE outcome = "ok" ->
            /\ participants' = data
            /\ showParticipantsModal' = TRUE
            /\ UNCHANGED <<ls, route, statusModal>>
       [] outcome = "auth" ->
            /\ ls' = ClearOfficer(ls)
            /\ route' = "login"
            /\ UNCHANGED <<participants, showParticipantsModal, statusModal>>
       [] OTHER ->
            /\ participants' = <<>>
            /\ statusModal' = Status("Error", "error")
            /\ showParticipantsModal' = TRUE
            /\ UNCHANGED <<ls, route>>
  /\ last' = Step("handleParticipants.fetch", outcome, NoCall, data, outcome = "auth")
  /\ UNCHANGED <<scope, phase, officer, events, showEventModal, showDetailsModal,
                 selectedEvent, isLoading, showArchived, isTransitioning,
                 confirmationModal, approvalModal, profVars>>

\* ================================================ ProfilePage
\* The profile card is rendered past both early returns (ProfilePage.js:80-87).
ProfileVisible == route = "page" /\ phase = "mounted" /\ ~isLoading /\ user # NoUser

\* Guard of the fetch effect (ProfilePage.js:34): the request it issues, if any.
fetchProfileCall(t) == IF t = NULL THEN NoCall ELSE Call("getProfile", NULL, FALSE, t)

\* Mount: the early token check, then the fetch effect (ProfilePage.js:23-53).
MountProfile ==
  /\ page = "profile" /\ phase = "constructed"
  /\ phase' = "mounted"
  /\ ls' = IF userToken = NULL THEN ClearUser(ls) ELSE ls
  /\ route' = IF userToken = NULL THEN "login" ELSE route
  /\ inflight' = IF fetchProfileCall(userToken) = NoCall THEN inflight
                 ELSE Append(inflight, Req("fetchProfile", fetchProfileCall(userToken)))
  /\ last' = Step("mount", "none", fetchProfileCall(userToken), <<>>, userToken = NULL)
  /\ UNCHANGED <<scope, pageVars, profVars>>

\* The fields the profile card can edit (part_001:46-88: the named inputs).
EditableFields == {"full_name", "year", "block"}

\* A faulty initial form: the whole user object is copied into it.
CardFields_wholeUser(u) == u

\* The form the card builds from its user prop (part_001:6-10, 28-32).
CardFields(u) == [full_name |-> u.full_name, year |-> u.year, block |-> u.block]

\* fetchProfile after its await (ProfilePage.js:39-50); once the profile is
\* there the page renders the card, whose useState builds the form from it.
fetchProfile_settled(i, outcome, data) ==
  /\ inflight[i].h = "fetchProfile"
  /\ inflight' = RemoveAt(inflight, i)
  /\ user' = IF outcome = "ok" THEN data ELSE user
  /\ ls' = IF outcome = "ok" THEN ls ELSE ClearUser(ls)
  /\ route' = IF outcome = "ok" THEN route ELSE "login"
  /\ isLoading' = FALSE
  /\ formData' = IF outcome = "ok" THEN CardFields(data) ELSE formData
  /\ last' = Step("fetchProfile", outcome, NoCall, <<data>>, outcome # "ok")
  /\ UNCHANGED <<scope, phase, officer, events, showEventModal, showDetailsModal,
                 selectedEvent, showParticipantsModal, participants, showArchived,
                 isTransitioning, statusModal, confirmationModal, approvalModal,
                 modalState, isEditing>>

FetchProfileSettles ==
  \E i \in DOMAIN inflight : \E outcome \in ServiceOutcomes :
    \E data \in (IF outcome = "ok" THEN Profiles ELSE {NoUser}) :
      fetchProfile_settled(i, outcome, data)

\* updateProfile(token, updatedData) (ProfilePage.js:57).
updateProfileCall(updatedData) ==
  [Call("updateProfile", NULL, FALSE, userToken) EXCEPT !.body = updatedData]

\* handleUpdateProfile up to its await (ProfilePage.js:55-57), called by the
\* profile card's onUpdate.
handleUpdateProfile(updatedData) ==
  /\ ProfileVisible /\ CanIssue
  /\ inflight' = Append(inflight, Req("handleUpdateProfile", updateProfileCall(updatedData)))
  /\ last' = Step("handleUpdateProfile", "none", updateProfileCall(updatedData), <<>>, FALSE)
  /\ UNCHANGED <<scope, phase, ls, route, pageVars, user, modalState>>

\* ------------------------------------------------------------ ProfileCard
\* Values the card's inputs can be given (part_001:12-13, 46-88).
FieldValues(name) ==
  CASE name = "full_name" -> {"n1", "n2"}
    [] name = "year" -> {"1st Year", "2nd Year"}
    [] name = "block" -> {"A", "B"}

\* handleInputChange (part_001:15-18): { ...formData, [name]: value }.
handleInputChange(name, value) ==
  /\ ProfileVisible /\ isEditing
  /\ formData' = [k \in (DOMAIN formData) \cup {name} |->
                    IF k = name THEN value ELSE formData[k]]
  /\ last' = Step("handleInputChange", "none", NoCall, <<>>, FALSE)
  /\ UNCHANGED <<scope, phase, ls, route, inflight, pageVars, user, modalState, isEditing>>

InputChange ==
  \E name \in EditableFields : \E value \in FieldValues(name) : handleInputChange(name, value)

\* handleSubmit (part_001:20-24): onUpdate(formData), then leave edit mode.
handleSubmit ==
  /\ isEditing
  /\ handleUpdateProfile(formData)
  /\ isEditing' = FALSE
  /\ UNCHANGED formData

\* toggleEdit (part_001:26-33): the Edit Profile button, or Cancel while editing.
toggleEdit ==
  /\ ProfileVisible
  /\ isEditing' = ~isEditing
  /\ formData' = CardFields(user)
  /\ last' = Step("toggleEdit", "none", NoCall, <<>>, FALSE)
  /\ UNCHANGED <<scope, phase, ls, route, inflight, pageVars, user, modalState>>

\* A faulty handleUpdateProfile: reports success without storing the profile.
handleUpdateProfile_settled_keepsUser(i, outcome, data) ==
  /\ inflight[i].h = "handleUpdateProfile"
  /\ inflight' = RemoveAt(inflight, i)
  /\ user' = user
  /\ modalState' = IF outcome = "ok" THEN Status("Profile Updated", "success")
                   ELSE Status("Profile Update Failed", "error")
  /\ last' = Step("handleUpdateProfile.update", outcome, NoCall, <<data>>, FALSE)
  /\ UNCHANGED <<scope, phase, ls, route, pageVars, isEditing, formData>>

\* handleUpdateProfile after its await (ProfilePage.js:57-73).
handleUpdateProfile_settled(i, outcome, data) ==
  /\ inflight[i].h = "handleUpdateProfile"
  /\ inflight' = RemoveAt(inflight, i)
  /\ user' = IF outcome = "ok" THEN data ELSE user
  /\ modalState' = IF outcome = "ok" THEN Status("Profile Updated", "success")
                   ELSE Status("Profile Update Failed", "error")
  /\ last' = Step("handleUpdateProfile.update", outcome, NoCall, <<data>>, FALSE)
  /\ UNCHANGED <<scope, phase, ls, route, pageVars, isEditing, formData>>

UpdateProfileSettles ==
  \E i \in DOMAIN inflight : \E outcome \in ServiceOutcomes :
    \E data \in (IF outcome = "ok" THEN Profiles ELSE {NoUser}) :
      handleUpdateProfile_settled(i, outcome, data)

\* closeModal (ProfilePage.js:76-78), the status dialog's onClose.
closeModal ==
  /\ ProfileVisible /\ modalState.isOpen
  /\ modalState' = [modalState EXCEPT !.isOpen = FALSE]
  /\ last' = UiStep
  /\ UNCHANGED <<scope, phase, ls, route, inflight, pageVars, user, isEditing, formData>>

\* ================================================ specification
ClickEdit == \E evt \in Rendered : handleEdit(evt)
\* The event modal edits initialEvent = selectedEvent (part_000:546-551) and passes
\* that event's id, or none for a new event, to onSave.
SaveEvent == handleSave(selectedEvent.id)
SaveMutationSettles ==
  \E i \in DOMAIN inflight : \E outcome \in ServiceOutcomes : handleSave_mutated(i, outcome)
SaveRefreshSettles ==
  \E i \in DOMAIN inflight : \E outcome \in ServiceOutcomes :
    \E data \in (IF outcome = "ok" THEN EventLists(inflight[i].call.archived) ELSE {<<>>}) :
      handleSave_refreshed(i, outcome, data)
ArchiveDeleteSettles ==
  \E i \in DOMAIN inflight : \E outcome \in ServiceOutcomes : confirmArchive_deleted(i, outcome)
ArchiveRefreshSettles ==
  \E i \in DOMAIN inflight : \E outcome \in ServiceOutcomes :
    \E data \in (IF outcome = "ok" THEN EventLists(inflight[i].call.archived) ELSE {<<>>}) :
      confirmArchive_refreshed(i, outcome, data)
SubmitApproval == \E action \in ApprovalActions : handleApprovalSubmit(action)
ApproveSettles ==
  \E i \in DOMAIN inflight : \E outcome \in FetchOutcomes : handleApprovalSubmit_approved(i, outcome)
ApproveRefreshSettles ==
  \E i \in DOMAIN inflight : \E outcome \in ServiceOutcomes :
    \E data \in (IF outcome = "ok" THEN EventLists(inflight[i].call.archived) ELSE {<<>>}) :
      handleApprovalSubmit_refreshed(i, outcome, data)
ClickDetails == \E evt \in Rendered : handleDetails(evt)
ClickParticipants == \E evt \in Rendered : handleParticipants(evt)
ParticipantsSettle ==
  \E i \in DOMAIN inflight : \E outcome \in FetchOutcomes :
    \E data \in (IF outcome = "ok" THEN ParticipantLists(inflight[i].call.id) ELSE {<<>>}) :
      handleParticipants_settled(i, outcome, data)

\* Steps every events-page specification has: mount, the list fetch, the
\* archived toggle and the status dialog's close.
Core ==
  \/ MountEvents
  \/ FetchDataSettles
  \/ toggleArchived
  \/ handleCloseStatusModal

\* Creating and editing events.
NextSave ==
  \/ Core
  \/ handleAddNewEvent
  \/ ClickEdit
  \/ handleCloseEventModal
  \/ SaveEvent
  \/ SaveMutationSettles
  \/ SaveRefreshSettles

\* Archiving events.
NextArchive ==
  \/ Core
  \/ ClickArchive
  \/ CancelArchive
  \/ ConfirmArchive
  \/ ArchiveDeleteSettles
  \/ ArchiveRefreshSettles

\* Creating, editing and archiving: a session does one or the other.
InSave == scope = "save"
InArchive == scope = "archive"
NextManage ==
  \/ Core
  \/ InSave /\ handleAddNewEvent
  \/ InSave /\ ClickEdit
  \/ InSave /\ handleCloseEventModal
  \/ InSave /\ SaveEvent
  \/ InSave /\ SaveMutationSettles
  \/ InSave /\ SaveRefreshSettles
  \/ InArchive /\ ClickArchive
  \/ InArchive /\ CancelArchive
  \/ InArchive /\ ConfirmArchive
  \/ InArchive /\ ArchiveDeleteSettles
  \/ InArchive /\ ArchiveRefreshSettles

\* Approving and declining event plans.
NextApproval ==
  \/ Core
  \/ ClickApprove
  \/ CloseApprovalModal
  \/ SubmitApproval
  \/ ApproveSettles
  \/ ApproveRefreshSettles

\* Event details and participants.
NextParticipants ==
  \/ Core
  \/ ClickDetails
  \/ handleCloseDetailsModal
  \/ handleCloseParticipantsModal
  \/ ClickParticipants
  \/ ParticipantsSettle

\* The profile page.
NextProfile ==
  \/ MountProfile
  \/ FetchProfileSettles
  \/ toggleEdit
  \/ InputChange
  \/ handleSubmit
  \/ UpdateProfileSettles
  \/ closeModal

\* ConfirmationModal is not among the sources.  It is taken to be a modal
\* dialog driven by the props the page passes (part_000:578-589): while it is
\* open the page beneath takes no clicks, and while its isLoading prop is true
\* its confirm button is disabled.
PageFree == ~confirmationModal.isOpen
ConfirmEnabled == ~confirmationModal.isLoading

\* Archiving events through such a dialog.
NextArchiveDialog ==
  \/ MountEvents
  \/ FetchDataSettles
  \/ PageFree /\ toggleArchived
  \/ handleCloseStatusModal
  \/ PageFree /\ ClickArchive
  \/ CancelArchive
  \/ ConfirmEnabled /\ ConfirmArchive
  \/ ArchiveDeleteSettles
  \/ ArchiveRefreshSettles

InitArchive == Init /\ scope = "archive"
InitManage == Init /\ scope \in {"save", "archive"}
InitApproval == Init /\ scope = "approval"
InitParticipants == Init /\ scope = "participants"
InitProfile == Init /\ scope = "profile"

SpecArchive == InitArchive /\ [][NextArchive]_vars
SpecArchiveDialog == InitArchive /\ [][NextArchiveDialog]_vars
SpecManage == InitManage /\ [][NextManage]_vars
SpecApproval == InitApproval /\ [][NextApproval]_vars
SpecParticipants == InitParticipants /\ [][NextParticipants]_vars
SpecProfile == InitProfile /\ [][NextProfile]_vars

\* ================================================ properties
\* The stored credentials of the page are gone.
CredentialsCleared ==
  IF page = "events" THEN ls.officerAccessToken = NULL /\ ls.officerInfo = NULL
  ELSE ls.access_token = NULL /\ ls.user_id = NULL

\* The status dialog of the page.
Dialog == IF page = "events" THEN statusModal ELSE modalState

\* Number of awaited calls of a service function.
InFlight(fn) == Cardinality({k \in DOMAIN inflight : inflight[k].call.fn = fn})

\* C1: whenever a backend request of either page fails with a 401 / 'Invalid or
\* expired token' error, the step that handles the failure removes both stored
\* credential keys and navigates to the login route.
C1_AuthFailureLogsOut ==
  last.outcome = "auth" => last.nav /\ CredentialsCleared /\ route = "login"

\* C2: a deleteOfficerEvent call is issued only by confirmArchive, run from the
\* confirmation dialog while it is open, and the dialog is opened only by
\* handleArchive; so neither clicking Archive nor opening and cancelling the
\* dialog issues a delete.
C2_DeleteNeedsConfirmation ==
  [][ /\ InFlight("deleteOfficerEvent")' > InFlight("deleteOfficerEvent")
         => /\ last'.op = "confirmArchive"
            /\ confirmationModal.isOpen
            /\ confirmationModal.onConfirm.bound
      /\ (~confirmationModal.isOpen /\ confirmationModal'.isOpen)
         => last'.op = "handleArchive"
      /\ last'.op \in {"handleArchive", "handleCloseConfirmationModal"}
         => inflight' = inflight ]_vars

\* A delete has just been issued from the confirmation dialog.
C2_Witness ==
  /\ last.op = "confirmArchive"
  /\ last.call.fn = "deleteOfficerEvent"
  /\ InFlight("deleteOfficerEvent") = 1

\* C3: when the archive dialog is confirmed, deleteOfficerEvent is called with
\* the id of the event whose Archive button opened the dialog.
C3_DeleteUsesDialogEvent ==
  last.call.fn = "deleteOfficerEvent" => last.call.id = confirmationModal.eventId

\* C4: after a createOfficerEvent, updateOfficerEvent or deleteOfficerEvent call
\* succeeds, the handler calls getOfficerEvents with the token and an archived
\* flag and awaits it; when that fetch succeeds, events is its result.
C4_MutationThenRefetch ==
  /\ (last.op \in {"handleSave.mutation", "confirmArchive.delete"} /\ last.outcome = "ok")
       => /\ last.call.fn = "getOfficerEvents"
          /\ last.call.token = TOKEN
          /\ last.call.archived \in BOOLEAN
          /\ \E k \in DOMAIN inflight : inflight[k].call = last.call
  /\ (last.op \in {"handleSave.refresh", "confirmArchive.refresh"} /\ last.outcome = "ok")
       => events = last.data

\* A refresh that followed a mutation has just delivered a non-empty list.
C4_Witness ==
  /\ last.op \in {"handleSave.refresh", "confirmArchive.refresh"}
  /\ last.outcome = "ok"
  /\ events = last.data
  /\ events # <<>>

\* C5 as stated: whenever the participants request fails, by rejection or by any
\* non-OK response, the handler ends with the modal shown and an empty list.
C5_AnyFailureOpensModal ==
  (last.op = "handleParticipants.fetch" /\ last.outcome # "ok")
    => showParticipantsModal /\ participants = <<>>

\* C5 amended: whenever the participants request fails by rejection or by a
\* non-OK response other than 401, the handler ends with the modal shown and an
\* empty list.
C5_NonAuthFailureOpensModal ==
  (last.op = "handleParticipants.fetch" /\ last.outcome \in {"http", "reject"})
    => showParticipantsModal /\ participants = <<>>

\* A participants request has failed with a non-401 status.
C5_Witness ==
  /\ last.op = "handleParticipants.fetch"
  /\ last.outcome = "http"
  /\ showParticipantsModal
  /\ participants = <<>>

\* C6: submitting 'decline' issues no request, leaves the event list and the
\* stored credentials unchanged, closes the approval modal and opens the status
\* dialog; submitting any other action issues exactly one request, a POST to the
\* approve endpoint for the event the approval modal was opened for.
C6_DeclineIsLocal ==
  [][ /\ last'.op = "handleApprovalSubmit:decline"
         => /\ inflight' = inflight
            /\ last'.call = NoCall
            /\ events' = events
            /\ ls' = ls
            /\ ~approvalModal'.isOpen
            /\ statusModal'.isOpen
      /\ last'.op = "handleApprovalSubmit:approve"
         => /\ Len(inflight') = Len(inflight) + 1
            /\ SubSeq(inflight', 1, Len(inflight)) = inflight
            /\ inflight'[Len(inflight')].call.fn = "POST /events/id/approve"
            /\ inflight'[Len(inflight')].call.id = approvalModal.eventId
            /\ approvalModal.eventId \in EventIds ]_vars

\* A decline has just been handled while a list is on screen.
C6_Witness ==
  /\ last.op = "handleApprovalSubmit:decline"
  /\ statusModal.title = "Event Declined"
  /\ ~approvalModal.isOpen
  /\ events # <<>>

\* C7: whenever a backend request of either page fails for a reason other than
\* authentication, the status dialog is opened with type 'error', the stored
\* credentials are not cleared and there is no redirect to login.
C7_OtherFailureShowsError ==
  last.outcome \in {"other", "http", "reject"}
    => Dialog.isOpen /\ Dialog.type = "error" /\ ~last.nav

\* C8: there are never two event-list fetches, nor two participants fetches, in
\* flight at the same time.
C8_NoConcurrentWriters ==
  /\ InFlight("getOfficerEvents") <= 1
  /\ InFlight("GET /events/id/participants") <= 1

\* C9: when updateProfile succeeds, user becomes the returned profile and a
\* success dialog opens; when it fails, user is unchanged and an error dialog
\* opens.
C9_UpdateProfileResult ==
  [][ last'.op = "handleUpdateProfile.update"
      => IF last'.outcome = "ok"
         THEN /\ user' = last'.data[1]
              /\ modalState'.isOpen /\ modalState'.type = "success"
         ELSE /\ user' = user
              /\ modalState'.isOpen /\ modalState'.type = "error" ]_vars

\* An update has just stored the profile the backend returned.
C9_Witness ==
  /\ last.op = "handleUpdateProfile.update"
  /\ last.outcome = "ok"
  /\ user = last.data[1]
  /\ user.full_name = "n2"
  /\ modalState.type = "success"

\* C10: when a page mounts without valid stored credentials, the credential
\* keys are cleared, the app navigates to login, and the page issues no request.
C10_NoFetchWithoutCredentials ==
  (last.op = "mount" /\ last.nav)
    => CredentialsCleared /\ route = "login" /\ last.call = NoCall /\ inflight = <<>>

\* C11: the object the profile card passes to onUpdate has exactly the keys
\* full_name, year and block and is the form as edited; cancelling an edit
\* calls onUpdate zero times and resets the form to the current user's values.
C11_PayloadIsEditableFields ==
  [][ /\ last'.call.fn = "updateProfile"
         => /\ DOMAIN last'.call.body = EditableFields
            /\ last'.call.body = formData
            /\ isEditing /\ ~isEditing'
            /\ inflight' = Append(inflight, Req("handleUpdateProfile", last'.call))
      /\ (last'.op = "toggleEdit" /\ isEditing)
         => /\ inflight' = inflight
            /\ last'.call = NoCall
            /\ ~isEditing'
            /\ formData' = [full_name |-> user.full_name, year |-> user.year,
                            block |-> user.block] ]_vars

\* An edited form has just been submitted.
C11_Witness ==
  /\ last.call.fn = "updateProfile"
  /\ DOMAIN last.call.body = EditableFields
  /\ last.call.body.full_name # user.full_name
  /\ ~isEditing

\* No list fetch has failed so far: a failure other than 401 leaves the error
\* dialog's title behind, a 401 leaves the page.
NoFetchFailure == route = "page" /\ statusModal.title = ""

\* Every event of the in-memory list came from a fetch made with flag arch.
ListIsFor(arch) == \A k \in DOMAIN events : events[k].archived = arch

\* C12: when no list fetch has failed, then once no list fetch is in flight the
\* event list is the answer to a fetch made with the current showArchived, and
\* while isTransitioning is false the list never holds the answer to a fetch
\* made with the other flag value.
C12_ListMatchesView ==
  (phase = "mounted" /\ NoFetchFailure)
    => /\ InFlight("getOfficerEvents") = 0 => ListIsFor(showArchived)
       /\ ~isTransitioning => ListIsFor(showArchived)

\* C13: whenever the participants modal is open with a non-empty list, that
\* list is the answer to the participants request made for the current
\* selectedEvent.
C13_ParticipantsOfSelectedEvent ==
  (showParticipantsModal /\ participants # <<>>)
    => \A k \in DOMAIN participants : participants[k].event = selectedEvent.id

\* The steps that resume a mutating handler after its list refresh: they are
\* reached only once the create/update, delete or approve call has succeeded.
RefreshSteps == {"handleSave.refresh", "confirmArchive.refresh", "handleApprovalSubmit.refresh"}

\* C14: once the create/update, delete or approve call has succeeded, the
\* handler puts up no error status, whatever the outcome of the list refresh
\* that follows: the refresh step leaves the status dialog alone or sets a
\* success status.
C14_NoErrorAfterSuccessfulMutation ==
  [][ last'.op \in RefreshSteps
      => \/ statusModal' = statusModal
         \/ statusModal'.type = "success" ]_vars

\* A confirmArchive is between its start and the settling of its requests.
ArchiveInFlight == \E i \in DOMAIN inflight : inflight[i].h = "confirmArchive"

====
